---------------------------- MODULE Spec2Model ----------------------------
(***************************************************************************)
(* A model of run.py: the loader that reads the CSV files of each table    *)
(* directory under src_path and appends them to a PostgreSQL table.        *)
(*                                                                         *)
(* The environment (command line, schemas.json, the source tree, the       *)
(* store) is read by the actions; what a read observes is drawn from a     *)
(* bounded set the first time and kept, so the source tree and the         *)
(* manifest do not change while the program runs or between two runs.      *)
(* The table list holds distinct names, files hold at least one row and    *)
(* at most one malformed row (a row with too many fields).                 *)
(***************************************************************************)
EXTENDS Integers, Sequences, FiniteSets, Bags, TLC

\* Bounds of the model.
MaxSize == 3      \* size of the source tree: its rows, plus one for each
                  \* entry that holds none (a sub-directory, an unreadable file)
MaxChunk == 2     \* largest chunk size given with --chunks
MaxCpu == 2       \* largest os.cpu_count()
MaxRuns == 2      \* runs of the program over the same source tree

\* args.chunks when --chunks is not given (default=None).
None == 0

\* The tables, in the order lists name them (the names are interchangeable).
AllTables == <<"orders", "customers">>
TableNames == {AllTables[x] : x \in DOMAIN AllTables}

VARIABLES
    tablesArg,    \* args.tables split on commas (<<>>: option not given)
    chunk_num,    \* args.chunks (None: option not given)
    cpu_count,    \* os.cpu_count() or 1
    manifest,     \* schemas.json on disk: table -> number of column descriptors
    fs,           \* the table directories under src_path, as far as observed
    quota,        \* the size the directories not yet observed may have
    store,        \* the rows in the database, a bag of <<table, file, row>>
    pc,           \* where the main process is
    cfgError,     \* the configuration error the run has hit, "none" if none
    schemas,      \* main: the loaded manifest
    tablenames,   \* main: the list of tables to process
    k,            \* main: index in tablenames of the table being processed
    filenames,    \* read_csv: the files of the table directory
    j,            \* index of the current file (in filenames, then in items)
    data,         \* read_csv/upload_to_db: file -> what read_csv holds for it
    items,        \* upload_to_db: the keys of data, in insertion order
    results,      \* upload_to_db: the chunk results of the current file
    pending,      \* pool: tasks not yet taken by a worker, <<index, chunk>>
    inflight,     \* pool: tasks a worker is executing
    poolResults,  \* pool: index -> result of the finished tasks
    log,          \* history: the observable operations of the current run
    runs          \* history: number of runs started

vars == <<tablesArg, chunk_num, cpu_count, manifest, fs, quota, store, pc, cfgError,
          schemas, tablenames, k, filenames, j, data, items, results,
          pending, inflight, poolResults, log, runs>>

env == <<tablesArg, chunk_num, cpu_count, manifest>>
tree == <<fs, quota>>
locals == <<filenames, j, data, items, results>>
pool == <<pending, inflight, poolResults>>

-----------------------------------------------------------------------------
\* Sequences and small helpers.

Range(s) == {s[x] : x \in DOMAIN s}

TableLists == {SubSeq(AllTables, 1, n) : n \in 0..Len(AllTables)}

Size(entry) == IF entry.rows = 0 THEN 1 ELSE entry.rows

RECURSIVE SumSize(_)
SumSize(entries) ==
    IF entries = <<>> THEN 0
    ELSE Size(Head(entries)) + SumSize(Tail(entries))

\* An event of the log: the operation, its table, file and chunk index (or a
\* count), the rows it handles and their number, the chunks it has seen, the
\* keys of the dict it returns, and its outcome.
Event(op, t, f, i, ok) ==
    [op |-> op, t |-> t, f |-> f, i |-> i, n |-> 0, rows |-> {},
     seen |-> <<>>, ret |-> <<>>, ok |-> ok]

-----------------------------------------------------------------------------
\* The source tree.

SubDir == [kind |-> "dir", readable |-> FALSE, rows |-> 0, bad |-> 0]
Unreadable == [kind |-> "file", readable |-> FALSE, rows |-> 0, bad |-> 0]

\* The entries a directory may hold with `budget` rows left: a sub-directory,
\* a file that cannot be opened, a file of n rows whose row `bad` is malformed
\* (0: none is).
Entries(budget) ==
    {SubDir, Unreadable} \cup
    UNION {{[kind |-> "file", readable |-> TRUE, rows |-> n, bad |-> b] :
               b \in 0..n} : n \in 1..budget}

Listings(budget) ==
    {l \in UNION {[1..n -> Entries(budget)] : n \in 0..budget} :
        SumSize(l) <= budget}

\* What the program has observed of a table directory: nothing yet, that it
\* does not exist, that it exists (the root was listed), or its listing.
Unknown == [state |-> "unknown", entries |-> <<>>]
NoDir == [state |-> "nodir", entries |-> <<>>]
Exists == [state |-> "dir", entries |-> <<>>]
Dir(l) == [state |-> "listed", entries |-> l]

\* The listings the directory of table t may turn out to hold.
Observable(t) ==
    CASE fs[t].state = "listed" -> {fs[t]}
      [] fs[t].state = "nodir" -> {NoDir}
      [] fs[t].state = "dir" -> {Dir(l) : l \in Listings(quota)}
      [] OTHER -> {NoDir} \cup {Dir(l) : l \in Listings(quota)}

\* The root listings consistent with what has been observed.
RootListings ==
    {l \in TableLists :
        /\ \A t \in Range(l) : fs[t].state # "nodir"
        /\ \A t \in TableNames \ Range(l) : fs[t].state \in {"unknown", "nodir"}}

-----------------------------------------------------------------------------
\* pandas.read_csv(path, names=columns, chunksize=s): a reader that has
\* yielded `pos` chunks of a file.

Exhausted(file, s, pos) == pos * s >= file.rows

NextChunk(file, s, pos) ==
    {r \in 1..file.rows : pos * s < r /\ r <= (pos + 1) * s}

Malformed(file, rows) == file.bad \in rows

\* Mutant: only the first row of the file is read.
first_row_only(file) == 1..1

\* The rows of the DataFrame pd.read_csv returns without a chunk size.
AllRows(file) == 1..file.rows

\* What read_csv holds for a file: nothing (the key is not set), None, a
\* DataFrame, or a reader at position pos.
Absent == [kind |-> "absent", pos |-> 0]
NoData == [kind |-> "none", pos |-> 0]
Frame == [kind |-> "frame", pos |-> 0]
Reader(pos) == [kind |-> "iter", pos |-> pos]

\* The chunks a reader yields when it goes from position `from` to `to`.
Yielded(file, s, from, to) ==
    [i \in 1..(to - from) |-> NextChunk(file, s, from + i - 1)]

\* Iterating a reader to its end: the position it stops at and whether it got
\* there without a parse error.
RECURSIVE Drain(_, _, _)
Drain(file, s, pos) ==
    IF Exhausted(file, s, pos) THEN [valid |-> TRUE, pos |-> pos]
    ELSE IF Malformed(file, NextChunk(file, s, pos))
         THEN [valid |-> FALSE, pos |-> pos]
         ELSE Drain(file, s, pos + 1)

\* Mutant: the preflight pass reports every file as valid.
validate_nothing(file, s, pos) == [valid |-> TRUE, pos |-> Drain(file, s, pos).pos]

\* validate_chunks: `for chunk in data: pass`, False on an exception.
validate_chunks(file, s, pos) == Drain(file, s, pos)

\* Mutant: the drained reader is kept for the upload.
reinit_forgotten(valid, drained) == IF valid THEN Reader(drained) ELSE NoData

\* Mutant: the second reader starts after the first chunk.
reinit_past_first(valid, drained) == IF valid THEN Reader(1) ELSE NoData

\* Mutant: the file is read again whatever the preflight pass found.
reinit_unconditionally(valid, drained) == Reader(0)

\* `data[filename] = pd.read_csv(...) if valid else None` after the preflight
\* pass has left the first reader at position `drained`.
Reinit(valid, drained) == IF valid THEN Reader(0) ELSE NoData

-----------------------------------------------------------------------------
\* The state after construction: the command line, the machine and the
\* manifest are given, nothing has been read, the store is empty.

InitWith(size) ==
    /\ tablesArg \in TableLists
    /\ chunk_num \in {None} \cup 1..MaxChunk
    /\ cpu_count \in 1..MaxCpu
    /\ manifest \in [TableNames -> 0..1]
    /\ fs = [t \in TableNames |-> Unknown]
    /\ quota = size
    /\ store = EmptyBag
    /\ pc = "start"
    /\ cfgError = "none"
    /\ schemas = [t \in TableNames |-> 0]
    /\ tablenames = <<>>
    /\ k = 0
    /\ filenames = <<>>
    /\ j = 0
    /\ data = <<>>
    /\ items = <<>>
    /\ results = <<>>
    /\ pending = <<>>
    /\ inflight = {}
    /\ poolResults = {}
    /\ log = <<>>
    /\ runs = 1

Init == InitWith(MaxSize)

-----------------------------------------------------------------------------
\* Start-up: main, lines 18-25.

\* Mutant: the error is reported and the run goes on.
no_exit(next) == next

\* sys.exit(): the run ends instead of going on at `next`.
sys_exit(next) == "exited"

\* src_path = get_env_value('src_path')
get_src_path ==
    /\ pc = "start"
    /\ \/ /\ pc' = "con"
          /\ UNCHANGED cfgError
       \/ /\ cfgError' = "env"
          /\ pc' = sys_exit("con")
    /\ UNCHANGED <<env, tree, store, schemas, tablenames, k, locals, pool, log, runs>>

\* db_con = get_con_params(): the five connection values, then the probe.
get_con_params ==
    /\ pc = "con"
    /\ \/ /\ pc' = "json"
          /\ UNCHANGED cfgError
       \/ /\ cfgError' = "env"
          /\ pc' = sys_exit("json")
       \/ /\ cfgError' = "probe"
          /\ pc' = sys_exit("json")
    /\ UNCHANGED <<env, tree, store, schemas, tablenames, k, locals, pool, log, runs>>

\* schemas = json_load(src_path)
json_load ==
    /\ pc = "json"
    /\ \/ /\ schemas' = manifest
          /\ pc' = "tables"
          /\ log' = Append(log, Event("json_load", "", 0, 0, TRUE))
          /\ UNCHANGED cfgError
       \/ /\ cfgError' = "manifest"
          /\ pc' = sys_exit("tables")
          /\ log' = Append(log, Event("json_load", "", 0, 0, FALSE))
          /\ UNCHANGED schemas
    /\ UNCHANGED <<env, tree, store, tablenames, k, locals, pool, runs>>

\* `if not tablenames:` is false: the given list is used.
given_tablenames ==
    /\ pc = "tables"
    /\ tablesArg # <<>>
    /\ tablenames' = tablesArg
    /\ k' = 1
    /\ pc' = "loop"
    /\ UNCHANGED <<env, tree, store, cfgError, schemas, locals, pool, log, runs>>

\* tablenames = get_all_tablenames(src_path): the directories under src_path.
get_all_tablenames ==
    /\ pc = "tables"
    /\ tablesArg = <<>>
    /\ \/ \E l \in RootListings :
            /\ tablenames' = l
            /\ fs' = [t \in TableNames |->
                        IF t \in Range(l)
                        THEN (IF fs[t].state = "unknown" THEN Exists ELSE fs[t])
                        ELSE NoDir]
            /\ k' = 1
            /\ pc' = "loop"
            /\ UNCHANGED cfgError
       \/ /\ cfgError' = "listing"
          /\ pc' = sys_exit("loop")
          /\ UNCHANGED <<fs, tablenames, k>>
    /\ log' = Append(log, Event("listroot", "", 0, 0, cfgError' = "none"))
    /\ UNCHANGED <<env, quota, store, schemas, locals, pool, runs>>

-----------------------------------------------------------------------------
\* The table loop: main, lines 27-36.

CurTable == tablenames[k]
CurEntries == fs[CurTable].entries

NoLocals ==
    /\ filenames' = <<>>
    /\ j' = 0
    /\ data' = <<>>
    /\ items' = <<>>
    /\ results' = <<>>

\* Mutant: a table without columns is not skipped.
has_columns_always(sch, t) == TRUE

\* `if not columns:` of main, on what schemas.get(tablename, []) returned.
has_columns(sch, t) == sch[t] > 0

\* The for loop has no table left: main returns.
main_return ==
    /\ pc = "loop"
    /\ k > Len(tablenames)
    /\ pc' = "done"
    /\ UNCHANGED <<env, tree, store, cfgError, schemas, tablenames, k, locals,
                   pool, log, runs>>

\* columns = get_table_columns_from_schema(...); `if not columns: continue`
get_table_columns_from_schema ==
    /\ pc = "loop"
    /\ k <= Len(tablenames)
    /\ \/ /\ ~has_columns(schemas, CurTable)
          /\ log' = Append(log, Event("columns", CurTable, 0, 0, FALSE))
          /\ k' = k + 1
          /\ pc' = "loop"
       \/ /\ has_columns(schemas, CurTable)
          /\ log' = Append(log, Event("columns", CurTable, 0, 0, TRUE))
          /\ pc' = "read"
          /\ UNCHANGED k
    /\ UNCHANGED <<env, tree, store, cfgError, schemas, tablenames, locals,
                   pool, runs>>

-----------------------------------------------------------------------------
\* read_csv, lines 124-176.

\* Mutant: every entry of the directory is taken for a file.
any_entry(entry) == TRUE

\* os.path.isfile of an entry of the listing (line 144).
IsFile(entry) == entry.kind = "file"

\* `return {}` (lines 139 and 148) and `return data` (line 176): read_csv
\* hands the dict `keys` to main, which tests it with `if not data:`.
Returned(t, keys) ==
    [Event("read_csv", t, 0, Len(keys), keys # <<>>) EXCEPT !.ret = keys]

\* The entries of a listing that are files, in listing order (lines 141-145).

FilesOf(entries) ==
    LET RECURSIVE Pick(_)
        Pick(p) == IF p > Len(entries) THEN <<>>
                   ELSE (IF IsFile(entries[p]) THEN <<p>> ELSE <<>>)
                        \o Pick(p + 1)
    IN Pick(1)

\* Lines 136-150: the directory is missing, holds no file, or holds files.
read_csv_listdir ==
    /\ pc = "read"
    /\ \E d \in Observable(CurTable) :
        /\ fs' = [fs EXCEPT ![CurTable] = d]
        /\ quota' = IF fs[CurTable].state = "listed" THEN quota
                     ELSE quota - SumSize(d.entries)
        /\ \/ /\ d.state = "nodir"
              /\ log' = log \o <<Event("nodir", CurTable, 0, 0, FALSE),
                                 Returned(CurTable, <<>>)>>
              /\ k' = k + 1
              /\ pc' = "loop"
              /\ UNCHANGED locals
           \/ /\ d.state = "listed"
              /\ FilesOf(d.entries) = <<>>
              /\ log' = log \o <<Event("listdir", CurTable, 0, 0, TRUE),
                                 Event("nonew", CurTable, 0, 0, FALSE),
                                 Returned(CurTable, <<>>)>>
              /\ k' = k + 1
              /\ pc' = "loop"
              /\ UNCHANGED locals
           \/ /\ d.state = "listed"
              /\ FilesOf(d.entries) # <<>>
              /\ log' = Append(log, Event("listdir", CurTable, 0,
                                          Len(FilesOf(d.entries)), TRUE))
              /\ filenames' = FilesOf(d.entries)
              /\ j' = 1
              /\ data' = [p \in 1..Len(d.entries) |-> Absent]
              /\ pc' = "open"
              /\ UNCHANGED <<k, items, results>>
    /\ UNCHANGED <<env, store, cfgError, schemas, tablenames, pool, runs>>

\* Lines 154-160 and 171-173: the first pd.read_csv of a file. Without a chunk
\* size it parses the whole file; with one it only opens a reader.
read_csv_open ==
    /\ pc = "open"
    /\ j <= Len(filenames)
    /\ LET f == filenames[j]
           file == CurEntries[f]
       IN \/ /\ \/ ~file.readable
                \/ chunk_num = None /\ Malformed(file, AllRows(file))
             /\ data' = [data EXCEPT ![f] = NoData]
             /\ log' = Append(log, Event("open", CurTable, f, 0, FALSE))
             /\ j' = j + 1
             /\ UNCHANGED pc
          \/ /\ file.readable
             /\ chunk_num = None
             /\ ~Malformed(file, AllRows(file))
             /\ data' = [data EXCEPT ![f] = Frame]
             /\ log' = Append(log, Event("open", CurTable, f, 0, TRUE))
             /\ j' = j + 1
             /\ UNCHANGED pc
          \/ /\ file.readable
             /\ chunk_num # None
             /\ data' = [data EXCEPT ![f] = Reader(0)]
             /\ log' = Append(log, Event("open", CurTable, f, 0, TRUE))
             /\ pc' = "validate"
             /\ UNCHANGED j
    /\ UNCHANGED <<env, tree, store, cfgError, schemas, tablenames, k, filenames,
                   items, results, pool, runs>>

\* Lines 163-170: the preflight pass over the reader, then the second
\* pd.read_csv (or None).
read_csv_validate ==
    /\ pc = "validate"
    /\ LET f == filenames[j]
           v == validate_chunks(CurEntries[f], chunk_num, data[f].pos)
       IN /\ data' = [data EXCEPT ![f] = Reinit(v.valid, v.pos)]
          /\ log' = Append(log, [Event("preflight", CurTable, f, v.pos, v.valid)
                                    EXCEPT !.seen = Yielded(CurEntries[f], chunk_num,
                                                            data[f].pos, v.pos)])
    /\ j' = j + 1
    /\ pc' = "open"
    /\ UNCHANGED <<env, tree, store, cfgError, schemas, tablenames, k, filenames,
                   items, results, pool, runs>>

\* Mutant: the files whose value is None are kept.
keep_none(d, fns) == fns

\* Line 175: the keys of data whose value is not None, in insertion order.
NotNone(d, fns) == SelectSeq(fns, LAMBDA f : d[f].kind # "none")

\* Mutant: read_csv returns once it has read one file.
read_csv_return_early ==
    /\ pc = "open"
    /\ j > 1
    /\ \/ /\ NotNone(data, filenames) = <<>>
          /\ k' = k + 1
          /\ pc' = "loop"
          /\ NoLocals
       \/ /\ NotNone(data, filenames) # <<>>
          /\ items' = NotNone(data, filenames)
          /\ j' = 1
          /\ pc' = "upload"
          /\ UNCHANGED <<k, filenames, data, results>>
    /\ log' = Append(log, Returned(CurTable, NotNone(data, filenames)))
    /\ UNCHANGED <<env, tree, store, cfgError, schemas, tablenames, pool, runs>>

\* Lines 175-176 and `if not data: continue` of main.
read_csv_return ==
    /\ pc = "open"
    /\ j > Len(filenames)
    /\ \/ /\ NotNone(data, filenames) = <<>>
          /\ k' = k + 1
          /\ pc' = "loop"
          /\ NoLocals
       \/ /\ NotNone(data, filenames) # <<>>
          /\ items' = NotNone(data, filenames)
          /\ j' = 1
          /\ pc' = "upload"
          /\ UNCHANGED <<k, filenames, data, results>>
    /\ log' = Append(log, Returned(CurTable, NotNone(data, filenames)))
    /\ UNCHANGED <<env, tree, store, cfgError, schemas, tablenames, pool, runs>>

-----------------------------------------------------------------------------
\* to_sql, lines 232-257: one INSERT of the chunk's rows with
\* if_exists='append'; an exception of the store is caught and gives False.

RowIds(t, f, rows) == {<<t, f, r>> : r \in rows}

\* Mutant: if_exists='replace', the rows of the chunk replace those of the
\* table.
Replaced(st, t, f, rows) ==
    [e \in {x \in BagToSet(st) : x[1] # t} |-> st[e]]
        (+) SetToBag(RowIds(t, f, rows))

\* Mutant: a row already in the table is not inserted again.
Deduplicated(st, t, f, rows) ==
    st (+) SetToBag(RowIds(t, f, rows) \ BagToSet(st))

\* if_exists='append': the rows are added to those of the table.
Appended(st, t, f, rows) == st (+) SetToBag(RowIds(t, f, rows))

to_sql(t, f, i, rows, ok) ==
    /\ store' = IF ok THEN Appended(store, t, f, rows) ELSE store
    /\ log' = Append(log, [Event("to_sql", t, f, i, ok)
                              EXCEPT !.n = Cardinality(rows), !.rows = rows])

\* Mutant: the exception of a failed insert is not caught.
uncaught(ok, next) == IF ok THEN next ELSE "crashed"

\* Lines 253-257: the exception of a failed insert is caught and to_sql
\* returns False, so its caller goes on at `next`.
caught(ok, next) == next

-----------------------------------------------------------------------------
\* upload_to_db, lines 197-230.

CurFile == items[j]

\* `all(results)`
all(r) == \A x \in DOMAIN r : r[x]

\* Mutant: the results of a file are kept for the next one.
keep_results(r) == r

\* `results = []` at the end of a file's turn (line 230).
reset_results(r) == <<>>

\* The head of the for loop over data.items(): no file is left, or the
\* branch of the next file is chosen (lines 208-226).
upload_to_db_next ==
    /\ pc = "upload"
    /\ \/ /\ j > Len(items)
          /\ k' = k + 1
          /\ pc' = "loop"
          /\ NoLocals
          /\ UNCHANGED log
       \/ /\ j <= Len(items)
          /\ LET item == data[CurFile]
             IN IF item.kind = "frame" THEN pc' = "whole" /\ UNCHANGED <<j, log>>
                ELSE IF item.kind = "iter" /\ cpu_count = 1
                     THEN pc' = "seq" /\ UNCHANGED <<j, log>>
                ELSE IF item.kind = "iter"
                     THEN pc' = "pool" /\ UNCHANGED <<j, log>>
                ELSE /\ log' = Append(log, Event("problem", CurTable, CurFile, 0, FALSE))
                     /\ j' = j + 1
                     /\ UNCHANGED pc
          /\ UNCHANGED <<k, filenames, data, items, results>>
    /\ UNCHANGED <<env, tree, store, cfgError, schemas, tablenames, pool, runs>>

\* Line 211: results.append(to_sql(tablename, filename, db_con, (0, item)))
upload_whole ==
    /\ pc = "whole"
    /\ \E ok \in BOOLEAN :
        /\ to_sql(CurTable, CurFile, 0, AllRows(CurEntries[CurFile]), ok)
        /\ results' = Append(results, ok)
        /\ pc' = caught(ok, "verdict")
    /\ UNCHANGED <<env, tree, cfgError, schemas, tablenames, k, filenames, j,
                   data, items, pool, runs>>

\* Lines 215-216: one turn of `for i, data in enumerate(item)`: the reader
\* yields its next chunk, which to_sql uploads; a parse error is not caught.
\* The reader starts at its first chunk, so i is its position.
upload_seq ==
    /\ pc = "seq"
    /\ LET file == CurEntries[CurFile]
           pos == data[CurFile].pos
           rows == NextChunk(file, chunk_num, pos)
       IN \/ /\ Exhausted(file, chunk_num, pos)
             /\ pc' = "verdict"
             /\ UNCHANGED <<store, log, data, results>>
          \/ /\ ~Exhausted(file, chunk_num, pos)
             /\ IF Malformed(file, rows)
                THEN /\ pc' = "crashed"
                     /\ UNCHANGED <<store, log, data, results>>
                ELSE /\ \E ok \in BOOLEAN :
                          /\ to_sql(CurTable, CurFile, pos, rows, ok)
                          /\ results' = Append(results, ok)
                          /\ pc' = caught(ok, "seq")
                     /\ data' = [data EXCEPT ![CurFile] = Reader(pos + 1)]
    /\ UNCHANGED <<env, tree, cfgError, schemas, tablenames, k, filenames, j,
                   items, pool, runs>>

\* Lines 220-222: mp.Pool(cpu_count) and pool.map, which first turns
\* enumerate(item) into a list in the main process and queues one task per
\* chunk (a task holds one chunk as long as there are at most 4 * cpu_count).
Tasks(from, to) == [i \in 1..(to - from) |-> <<i - 1, from + i - 1>>]

upload_pool_map ==
    /\ pc = "pool"
    /\ LET file == CurEntries[CurFile]
           pos == data[CurFile].pos
           v == Drain(file, chunk_num, pos)
       IN IF v.valid
          THEN /\ pending' = Tasks(pos, v.pos)
               /\ data' = [data EXCEPT ![CurFile] = Reader(v.pos)]
               /\ log' = Append(log, Event("pool", CurTable, CurFile,
                                           v.pos - pos, TRUE))
               /\ pc' = "wait"
          ELSE /\ pc' = "crashed"
               /\ UNCHANGED <<pending, data, log>>
    /\ UNCHANGED <<env, tree, store, cfgError, schemas, tablenames, k, filenames,
                   j, items, results, inflight, poolResults, runs>>

\* Mutant: a task is started whether or not a worker is free.
worker_take_unbounded ==
    /\ pc = "wait"
    /\ pending # <<>>
    /\ inflight' = inflight \cup {Head(pending)}
    /\ pending' = Tail(pending)
    /\ UNCHANGED <<env, tree, store, pc, cfgError, schemas, tablenames, k, locals,
                   poolResults, log, runs>>

\* A free worker of the pool (mp.Pool(cpu_count) has cpu_count of them)
\* takes the next task of the queue.
worker_take ==
    /\ pc = "wait"
    /\ pending # <<>>
    /\ Cardinality(inflight) < cpu_count
    /\ inflight' = inflight \cup {Head(pending)}
    /\ pending' = Tail(pending)
    /\ UNCHANGED <<env, tree, store, pc, cfgError, schemas, tablenames, k, locals,
                   poolResults, log, runs>>

\* Mutant: a failed insert makes the pool drop the tasks still queued.
worker_to_sql_abandons ==
    /\ pc = "wait"
    /\ \E task \in inflight, ok \in BOOLEAN :
        /\ to_sql(CurTable, CurFile, task[1],
                  NextChunk(CurEntries[CurFile], chunk_num, task[2]), ok)
        /\ inflight' = inflight \ {task}
        /\ pending' = IF ok THEN pending ELSE <<>>
        /\ poolResults' = poolResults \cup {<<task[1], ok>>}
        /\ pc' = "wait"
    /\ UNCHANGED <<env, tree, cfgError, schemas, tablenames, k, locals, runs>>

\* Mutant: a task whose insert failed is queued again.
worker_to_sql_retry ==
    /\ pc = "wait"
    /\ \E task \in inflight, ok \in BOOLEAN :
        /\ to_sql(CurTable, CurFile, task[1],
                  NextChunk(CurEntries[CurFile], chunk_num, task[2]), ok)
        /\ inflight' = inflight \ {task}
        /\ pending' = IF ok THEN pending ELSE Append(pending, task)
        /\ poolResults' = IF ok THEN poolResults \cup {<<task[1], ok>>}
                          ELSE poolResults
        /\ pc' = "wait"
    /\ UNCHANGED <<env, tree, cfgError, schemas, tablenames, k, locals, runs>>

\* A worker finishes its task: partial_to_sql((i, chunk)) returns.
worker_to_sql ==
    /\ pc = "wait"
    /\ \E task \in inflight, ok \in BOOLEAN :
        /\ to_sql(CurTable, CurFile, task[1],
                  NextChunk(CurEntries[CurFile], chunk_num, task[2]), ok)
        /\ inflight' = inflight \ {task}
        /\ poolResults' = poolResults \cup {<<task[1], ok>>}
        /\ pc' = caught(ok, "wait")
    /\ UNCHANGED <<env, tree, cfgError, schemas, tablenames, k, locals,
                   pending, runs>>

\* Mutant: the main process goes on once every task has been taken, without
\* waiting for the workers.
join_without_waiting ==
    /\ pc = "wait"
    /\ pending = <<>>
    /\ pc' = "verdict"
    /\ UNCHANGED <<env, tree, store, cfgError, schemas, tablenames, k, locals,
                   pool, log, runs>>

\* Mutant: the results come back in the opposite order.
Reversed(done) ==
    [x \in 1..Cardinality(done) |->
        (CHOOSE p \in done : p[1] = Cardinality(done) - x)[2]]

\* pool.map returns the results in task order once every task is done;
\* results.extend(...) and the pool is closed.
InOrder(done) ==
    [x \in 1..Cardinality(done) |-> (CHOOSE p \in done : p[1] = x - 1)[2]]

upload_pool_join ==
    /\ pc = "wait"
    /\ pending = <<>>
    /\ inflight = {}
    /\ results' = results \o InOrder(poolResults)
    /\ poolResults' = {}
    /\ pc' = "verdict"
    /\ UNCHANGED <<env, tree, store, cfgError, schemas, tablenames, k, filenames,
                   j, data, items, pending, inflight, log, runs>>

\* Lines 228-230: the success report of the file, and `results = []`.
upload_verdict ==
    /\ pc = "verdict"
    /\ log' = Append(log, Event("verdict", CurTable, CurFile, Len(results),
                                all(results)))
    /\ results' = reset_results(results)
    /\ j' = j + 1
    /\ pc' = "upload"
    /\ UNCHANGED <<env, tree, store, cfgError, schemas, tablenames, k, filenames,
                   data, items, pool, runs>>

-----------------------------------------------------------------------------
\* The program is run again over the same source tree, manifest and command
\* line (lines 259-283); the store keeps its rows. A further run is explored
\* after a run in which the store accepted every insert.

Rejected == \E x \in DOMAIN log : log[x].op = "to_sql" /\ ~log[x].ok

Rerun ==
    /\ pc = "done"
    /\ runs < MaxRuns
    /\ ~Rejected
    /\ runs' = runs + 1
    /\ pc' = "start"
    /\ tablenames' = <<>>
    /\ k' = 0
    /\ schemas' = [t \in TableNames |-> 0]
    /\ log' = <<>>
    /\ UNCHANGED <<env, tree, store, cfgError, locals, pool>>

-----------------------------------------------------------------------------

Next ==
    \/ get_src_path
    \/ get_con_params
    \/ json_load
    \/ given_tablenames
    \/ get_all_tablenames
    \/ main_return
    \/ get_table_columns_from_schema
    \/ read_csv_listdir
    \/ read_csv_open
    \/ read_csv_validate
    \/ read_csv_return
    \/ upload_to_db_next
    \/ upload_whole
    \/ upload_seq
    \/ upload_pool_map
    \/ worker_take
    \/ worker_to_sql
    \/ upload_pool_join
    \/ upload_verdict

Spec == Init /\ [][Next]_vars

NextRerun == Next \/ Rerun

\* The steps of the main process: it has one thread of control, which runs
\* its next statement as long as it has one and is not blocked in pool.map.
MainStep ==
    \/ get_src_path \/ get_con_params \/ json_load \/ given_tablenames
    \/ get_all_tablenames \/ main_return \/ get_table_columns_from_schema
    \/ read_csv_listdir \/ read_csv_open \/ read_csv_validate
    \/ read_csv_return \/ upload_to_db_next \/ upload_whole \/ upload_seq
    \/ upload_pool_map \/ upload_pool_join \/ upload_verdict

\* Every call returns: the main process goes on, a free worker takes a
\* queued task, and a worker's insert comes back.
Fairness ==
    /\ WF_vars(MainStep)
    /\ WF_vars(worker_take)
    /\ WF_vars(worker_to_sql)

SpecLive == Init /\ [][Next]_vars /\ Fairness

\* Repeated runs are explored over a source tree one smaller.
InitRerun == InitWith(MaxSize - 1)

SpecRerun == InitRerun /\ [][NextRerun]_vars

-----------------------------------------------------------------------------
\* What the properties below speak of.

Chunked == chunk_num # None

Uploads == {x \in DOMAIN log : log[x].op = "to_sql"}

UploadsOf(t, f) == {x \in Uploads : log[x].t = t /\ log[x].f = f}

Preflights(t, f) ==
    {x \in DOMAIN log : log[x].op = "preflight" /\ log[x].t = t /\ log[x].f = f}

Verdicts(t, f) ==
    {x \in DOMAIN log : log[x].op = "verdict" /\ log[x].t = t /\ log[x].f = f}

\* The files an upload has been attempted for or is being attempted for.
Attempted ==
    {<<log[x].t, log[x].f>> : x \in Uploads}
    \cup (IF pc \in {"whole", "seq", "pool", "wait", "verdict"}
          THEN {<<CurTable, CurFile>>} ELSE {})

\* ceil(n / s)
Ceil(n, s) == (n + s - 1) \div s

\* The chunks a file of the source tree is split into.
ChunksOf(file) == IF Chunked THEN Ceil(file.rows, chunk_num) ELSE 1

WellFormed(file) == IsFile(file) /\ file.readable /\ file.bad = 0

\* The tables of the list whose turn has come, and those the manifest covers.
Covered(t) == manifest[t] > 0

-----------------------------------------------------------------------------
\* C1: with a chunk size set, an upload is attempted for a file only if the
\* preflight pass over that file drained all its chunks without a parse
\* error, and that pass came before the file's first upload; so no chunk of
\* a file with a malformed row is ever passed to to_sql, the well-formed
\* chunks before the malformed one included.
C1_UploadOnlyAfterCleanPreflight ==
    Chunked =>
        \A a \in Attempted :
            LET file == fs[a[1]].entries[a[2]]
            IN /\ file.bad = 0
               /\ \E y \in Preflights(a[1], a[2]) :
                    /\ log[y].ok
                    /\ log[y].i = Ceil(file.rows, chunk_num)
                    /\ \A x \in UploadsOf(a[1], a[2]) : y < x

\* A run has ended in which the preflight pass of a file failed on a chunk
\* after its first, and chunks of another file were uploaded.
C1_Witness ==
    /\ pc = "done"
    /\ Chunked
    /\ \E y \in DOMAIN log :
        /\ log[y].op = "preflight"
        /\ ~log[y].ok
        /\ log[y].i >= 1
        /\ UploadsOf(log[y].t, log[y].f) = {}
    /\ Uploads # {}

-----------------------------------------------------------------------------
\* Every chunk of file f of table t has had its upload attempt.
AllUploaded(t, f) ==
    \A i \in 0..(ChunksOf(fs[t].entries[f]) - 1) :
        \E x \in UploadsOf(t, f) : log[x].i = i

\* Table t has had its turn: its directory was looked for, and every
\* well-formed file found in it was uploaded.
Processed(t) ==
    /\ \E x \in DOMAIN log : log[x].t = t /\ log[x].op \in {"nodir", "listdir"}
    /\ \A f \in DOMAIN fs[t].entries :
        WellFormed(fs[t].entries[f]) => AllUploaded(t, f)

InTableTurn ==
    pc \in {"read", "open", "validate", "upload", "whole", "seq", "pool",
            "wait", "verdict"}

\* C2: a table of the list that the manifest does not cover is skipped: its
\* directory is never looked for or listed, no file of it is opened and
\* to_sql is never called for it; and the run goes on: when it ends, every
\* covered table that comes after an uncovered one has been read and its
\* well-formed files uploaded.
C2_UncoveredTableSkipped ==
    /\ \A t \in TableNames :
        ~Covered(t) =>
            /\ \A x \in DOMAIN log :
                log[x].t = t => log[x].op = "columns" /\ ~log[x].ok
            /\ fs[t].state # "listed"
            /\ InTableTurn => CurTable # t
    /\ pc = "done" =>
        \A x, y \in DOMAIN tablenames :
            (x < y /\ ~Covered(tablenames[x]) /\ Covered(tablenames[y]))
                => Processed(tablenames[y])

\* A run has ended in which a covered table came after an uncovered one and
\* had a chunk uploaded.
C2_Witness ==
    /\ pc = "done"
    /\ \E x, y \in DOMAIN tablenames :
        /\ x < y
        /\ ~Covered(tablenames[x])
        /\ Covered(tablenames[y])
        /\ \E u \in Uploads : log[u].t = tablenames[y] /\ log[u].ok

-----------------------------------------------------------------------------
\* C3: once a required environment value is missing, the probe connection
\* fails or the manifest is missing, the run has ended: the source root was
\* not listed, no table directory was looked for or listed, no file was
\* opened and to_sql was not called, before the error or after it; when the
\* environment or the probe fails, the manifest has not been loaded either.
C3_ConfigErrorEndsRun ==
    cfgError \in {"env", "probe", "manifest"} =>
        /\ pc = "exited"
        /\ \A x \in DOMAIN log : log[x].op = "json_load"
        /\ cfgError \in {"env", "probe"} => log = <<>>
        /\ \A t \in TableNames : fs[t].state = "unknown"
        /\ store = EmptyBag

\* The probe connection has failed.
C3_Witness == cfgError = "probe" /\ pc = "exited" /\ tablesArg = <<>>

-----------------------------------------------------------------------------
\* C4: a rejected insert does not stop the other chunks of a chunked file.
\* When the verdict of a validated file is due, results holds one entry for
\* each of its ceil(rows/s) chunks, entry i being what to_sql returned for
\* chunk i, rejected or not; and once the main process has left a file that
\* had an upload, every chunk of that file has had its upload attempt. This
\* holds with the worker pool and with one execution unit.
C4_EveryChunkAttempted ==
    Chunked =>
        /\ pc = "verdict" =>
            /\ Len(results) = Ceil(CurEntries[CurFile].rows, chunk_num)
            /\ \A i \in 0..(Len(results) - 1) :
                \E x \in UploadsOf(CurTable, CurFile) :
                    log[x].i = i /\ log[x].ok = results[i + 1]
        /\ \A x \in Uploads :
            \/ pc \in {"seq", "wait"} /\ CurTable = log[x].t /\ CurFile = log[x].f
            \/ AllUploaded(log[x].t, log[x].f)

\* The pool has uploaded a file whose first chunk the store rejected and
\* whose second chunk it accepted.
C4_Witness ==
    /\ pc = "verdict"
    /\ Chunked
    /\ cpu_count > 1
    /\ Len(results) >= 2
    /\ ~results[1]
    /\ results[2]

-----------------------------------------------------------------------------
\* The chunk of a file that holds its malformed row.
BadChunk(file) == (file.bad - 1) \div chunk_num

HasMalformedRow(file) == IsFile(file) /\ file.readable /\ file.bad # 0

\* C5 as claimed: at the end of a run with a chunk size set, a file with a
\* malformed row has a failed result for the chunk that holds the row, and
\* each of its other chunks has had its upload attempt.
C5_MalformedChunkFailsAlone ==
    (pc = "done" /\ Chunked) =>
        \A t \in TableNames : \A f \in DOMAIN fs[t].entries :
            HasMalformedRow(fs[t].entries[f]) =>
                /\ \E x \in UploadsOf(t, f) :
                    log[x].i = BadChunk(fs[t].entries[f]) /\ ~log[x].ok
                /\ AllUploaded(t, f)

\* C5 as amended: with a chunk size set, a malformed row is a file-scope
\* error. The preflight pass of the file stops at the chunk that holds the
\* row and fails; no chunk of the file, well-formed or not, is passed to
\* to_sql and the file gets no result and no verdict; and at the end of the
\* run the well-formed files of the same table have all been uploaded.
C5_MalformedChunkDropsFile ==
    Chunked =>
        \A t \in TableNames : \A f \in DOMAIN fs[t].entries :
            (HasMalformedRow(fs[t].entries[f]) /\ Preflights(t, f) # {}) =>
                /\ \A y \in Preflights(t, f) :
                    ~log[y].ok /\ log[y].i = BadChunk(fs[t].entries[f])
                /\ UploadsOf(t, f) = {}
                /\ Verdicts(t, f) = {}
                /\ <<t, f>> \notin Attempted
                /\ pc = "done" => Processed(t)

\* A run has ended in which a table held a file with a malformed row in its
\* second chunk or later and a well-formed file that was uploaded.
C5_Witness ==
    /\ pc = "done"
    /\ Chunked
    /\ \E t \in TableNames : \E f, g \in DOMAIN fs[t].entries :
        /\ HasMalformedRow(fs[t].entries[f])
        /\ BadChunk(fs[t].entries[f]) >= 1
        /\ Preflights(t, f) # {}
        /\ WellFormed(fs[t].entries[g])
        /\ UploadsOf(t, g) # {}

-----------------------------------------------------------------------------
\* C6: the verdict of a file is that of its own chunks. At every verdict,
\* the uploads of the file are all in (one for each of its chunks, all
\* before the verdict and none after it), and the success report is made
\* exactly when every one of them returned success, whatever the chunks of
\* the files before it returned. A file that had an upload gets one verdict
\* once the main process has left it.
C6_VerdictOfOwnChunks ==
    /\ \A u \in Uploads :
        \/ /\ pc \in {"seq", "wait", "verdict"}
           /\ CurTable = log[u].t /\ CurFile = log[u].f
           /\ Verdicts(log[u].t, log[u].f) = {}
        \/ Cardinality(Verdicts(log[u].t, log[u].f)) = 1
    /\ \A v \in DOMAIN log :
        log[v].op = "verdict" =>
            LET own == UploadsOf(log[v].t, log[v].f)
            IN /\ \A x \in own : x < v
               /\ Cardinality(own) = ChunksOf(fs[log[v].t].entries[log[v].f])
               /\ log[v].i = Cardinality(own)
               /\ log[v].ok <=> \A x \in own : log[x].ok

\* A file with a failed chunk was followed, in the same table, by a file
\* reported as loaded.
C6_Witness ==
    \E v, w \in DOMAIN log :
        /\ v < w
        /\ log[v].op = "verdict" /\ log[w].op = "verdict"
        /\ log[v].t = log[w].t
        /\ ~log[v].ok
        /\ log[w].ok

-----------------------------------------------------------------------------
\* C7: a rejected insert does not end the run. After one, the run neither
\* crashes nor exits; when it ends, every covered table of the list has been
\* read and every well-formed file uploaded, those after the failed chunk
\* included; and no chunk, the failed one included, is passed to to_sql a
\* second time.
C7_FailedInsertDoesNotEndRun ==
    /\ Rejected =>
        /\ pc \notin {"crashed", "exited"}
        /\ pc = "done" =>
            \A x \in DOMAIN tablenames :
                Covered(tablenames[x]) => Processed(tablenames[x])
    /\ \A x, y \in Uploads :
        (log[x].t = log[y].t /\ log[x].f = log[y].f /\ log[x].i = log[y].i)
            => x = y

\* A run has ended in which the store rejected a chunk of the first table,
\* then accepted a chunk of a later file of that table and a chunk of the
\* second table.
C7_Witness ==
    /\ pc = "done"
    /\ Len(tablenames) = 2
    /\ \E x, y, z \in Uploads :
        /\ x < y /\ y < z
        /\ ~log[x].ok /\ log[y].ok /\ log[z].ok
        /\ log[x].t = tablenames[1] /\ log[y].t = tablenames[1]
        /\ log[x].f < log[y].f
        /\ log[z].t = tablenames[2]

-----------------------------------------------------------------------------
TablePos(t) == CHOOSE x \in DOMAIN tablenames : tablenames[x] = t

TableEvents == {x \in DOMAIN log : log[x].t # ""}

\* C8: the tables are processed one after the other. The steps of the run
\* follow the order of the table list and none belongs to a table after the
\* current one; tasks are queued or executing only while the main process
\* waits for the pool; and once a step of another table has been made,
\* every chunk the pool was given for a file has returned its result.
C8_TablesInTurn ==
    /\ \A x \in TableEvents :
        /\ TablePos(log[x].t) <= k
        /\ (x + 1) \in DOMAIN log =>
            TablePos(log[x].t) <= TablePos(log[x + 1].t)
    /\ (pending # <<>> \/ inflight # {}) => pc = "wait"
    /\ \A p \in DOMAIN log :
        (log[p].op = "pool" /\ log[Len(log)].t # log[p].t) =>
            Cardinality(UploadsOf(log[p].t, log[p].f)) = log[p].i

\* The second table has had a step after the pool uploaded two chunks or
\* more of a file of the first.
C8_Witness ==
    \E p \in DOMAIN log :
        /\ log[p].op = "pool"
        /\ log[p].i >= 2
        /\ Len(tablenames) = 2
        /\ log[p].t = tablenames[1]
        /\ log[Len(log)].t = tablenames[2]

-----------------------------------------------------------------------------
-----------------------------------------------------------------------------
\* C10: uploads append. At the end of the k-th run over the same source
\* tree, every insert of every run having been accepted, the store holds
\* each row of each well-formed file of the covered tables of the list k
\* times, and nothing else.
C10_RowsOnceEveryRun ==
    (pc = "done" /\ ~Rejected) =>
        /\ \A t \in Range(tablenames) : \A f \in DOMAIN fs[t].entries :
            (Covered(t) /\ WellFormed(fs[t].entries[f])) =>
                \A r \in 1..fs[t].entries[f].rows :
                    CopiesIn(<<t, f, r>>, store) = runs
        /\ \A e \in BagToSet(store) :
            /\ CopiesIn(e, store) = runs
            /\ Covered(e[1])
            /\ WellFormed(fs[e[1]].entries[e[2]])
            /\ e[3] \in 1..fs[e[1]].entries[e[2]].rows

\* The second run has ended and the store holds the rows of a file of two
\* rows twice.
C10_Witness ==
    /\ pc = "done"
    /\ runs = 2
    /\ ~Rejected
    /\ \E e \in BagToSet(store) :
        /\ fs[e[1]].entries[e[2]].rows = 2
        /\ CopiesIn(e, store) = 2

-----------------------------------------------------------------------------
\* C11: without a chunk size a file is one batch. No preflight pass is run,
\* no reader is held, no pool is created and nothing is ever queued or in
\* flight; every upload has chunk index 0 and carries all the rows of its
\* file, a file has at most one, and at the end of the run every file of a
\* covered table that parsed has exactly one.
C11_WholeFileOneSynchronousUpload ==
    ~Chunked =>
        /\ pc \notin {"validate", "seq", "pool", "wait"}
        /\ pending = <<>> /\ inflight = {} /\ poolResults = {}
        /\ \A f \in DOMAIN data : data[f].kind # "iter"
        /\ \A x \in DOMAIN log :
            /\ log[x].op \notin {"preflight", "pool"}
            /\ log[x].op = "to_sql" =>
                /\ log[x].i = 0
                /\ log[x].n = fs[log[x].t].entries[log[x].f].rows
                /\ UploadsOf(log[x].t, log[x].f) = {x}
        /\ pc = "done" =>
            \A t \in Range(tablenames) : \A f \in DOMAIN fs[t].entries :
                (Covered(t) /\ WellFormed(fs[t].entries[f])) =>
                    Cardinality(UploadsOf(t, f)) = 1

\* A run without a chunk size on a machine with two execution units has
\* ended after uploading a file of two rows or more.
C11_Witness ==
    /\ pc = "done"
    /\ ~Chunked
    /\ cpu_count = 2
    /\ \E x \in Uploads : log[x].n >= 2 /\ log[x].ok

-----------------------------------------------------------------------------
\* C12: the uploads executing at the same time are never more than
\* cpu_count. With cpu_count = 1 no pool is created, nothing is queued or in
\* flight, and the chunks of a file are uploaded in increasing index order.
C12_ConcurrencyBounded ==
    /\ Cardinality(inflight) <= cpu_count
    /\ cpu_count = 1 =>
        /\ pc \notin {"pool", "wait"}
        /\ pending = <<>> /\ inflight = {} /\ poolResults = {}
        /\ \A x \in DOMAIN log : log[x].op # "pool"
        /\ \A x, y \in Uploads :
            (x < y /\ log[x].t = log[y].t /\ log[x].f = log[y].f)
                => log[x].i < log[y].i

\* Two uploads are executing on a machine with two execution units while a
\* third chunk waits in the queue.
C12_Witness ==
    /\ cpu_count = 2
    /\ Cardinality(inflight) = 2
    /\ pending # <<>>

-----------------------------------------------------------------------------
\* C13: with a chunk size set, each chunk of a validated file gets exactly
\* one upload attempt. No two uploads carry the same table, file and index;
\* every index is one of the file's chunks; at the verdict of a file there
\* are as many uploads and as many results as the file has chunks; and at
\* the end of the run every file whose preflight passed has its verdict.
C13_OneAttemptPerChunk ==
    Chunked =>
        /\ \A x, y \in Uploads :
            (log[x].t = log[y].t /\ log[x].f = log[y].f /\ log[x].i = log[y].i)
                => x = y
        /\ \A x \in Uploads :
            log[x].i \in 0..(ChunksOf(fs[log[x].t].entries[log[x].f]) - 1)
        /\ \A v \in DOMAIN log :
            log[v].op = "verdict" =>
                LET c == ChunksOf(fs[log[v].t].entries[log[v].f])
                IN /\ Cardinality(UploadsOf(log[v].t, log[v].f)) = c
                   /\ log[v].i = c
        /\ pc = "done" =>
            \A p \in DOMAIN log :
                (log[p].op = "preflight" /\ log[p].ok) =>
                    Verdicts(log[p].t, log[p].f) # {}

\* A chunked run has ended in which a file of two chunks or more had a
\* chunk rejected by the store.
C13_Witness ==
    /\ pc = "done"
    /\ Chunked
    /\ \E v \in DOMAIN log :
        /\ log[v].op = "verdict"
        /\ log[v].i >= 2
        /\ ~log[v].ok

-----------------------------------------------------------------------------
\* C14: the preflight pass and the upload pass split a file the same way.
\* Every upload of a chunked file carries, for its index i, the rows the
\* preflight pass saw in its chunk i; and at the verdict of the file the
\* uploads are as many as the chunks the preflight pass saw.
C14_SamePartitionInBothPasses ==
    Chunked =>
        /\ \A x \in Uploads :
            \E y \in Preflights(log[x].t, log[x].f) :
                /\ log[x].i + 1 \in DOMAIN log[y].seen
                /\ log[y].seen[log[x].i + 1] = log[x].rows
        /\ \A v \in DOMAIN log :
            log[v].op = "verdict" =>
                \E y \in Preflights(log[v].t, log[v].f) :
                    Cardinality(UploadsOf(log[v].t, log[v].f)) = Len(log[y].seen)

\* A file of three rows has been preflighted and uploaded in chunks of two
\* rows.
C14_Witness ==
    /\ chunk_num = 2
    /\ \E v \in DOMAIN log :
        /\ log[v].op = "verdict"
        /\ log[v].i = 2
        /\ \E x \in UploadsOf(log[v].t, log[v].f) : log[x].i = 1 /\ log[x].n = 1

-----------------------------------------------------------------------------
\* The steps of read_csv on a file, and those of upload_to_db.
ReadSteps == {x \in DOMAIN log : log[x].op \in {"open", "preflight"}}

UploadSteps == {x \in DOMAIN log : log[x].op \in {"pool", "to_sql", "verdict"}}

\* C15 as stated: a file is read, preflighted and uploaded in full before
\* any step of the next file of its table; so the steps of a table on its
\* files never go back to an earlier file.
C15_FileDoneBeforeNextBegins ==
    \A x, y \in ReadSteps \cup UploadSteps :
        (x < y /\ log[x].t = log[y].t) => log[x].f <= log[y].f

\* C15, amended: files are sequential within each phase of a table. The
\* read steps never go back to an earlier file and a preflight directly
\* follows the opening of its file; the upload steps never go back to an
\* earlier file, and when a step of upload is made for a file, every earlier
\* file that had one has had all its uploads and its verdict; tasks are
\* queued or in flight only while the main process waits on the one file
\* they belong to.
C15_FilesInTurnInEachPhase ==
    /\ \A x, y \in ReadSteps :
        (x < y /\ log[x].t = log[y].t) => log[x].f <= log[y].f
    /\ \A y \in ReadSteps :
        log[y].op = "preflight" =>
            /\ log[y - 1].op = "open"
            /\ log[y - 1].t = log[y].t /\ log[y - 1].f = log[y].f
    /\ \A x, y \in UploadSteps :
        (x < y /\ log[x].t = log[y].t) =>
            /\ log[x].f <= log[y].f
            /\ log[x].f < log[y].f =>
                /\ \E v \in Verdicts(log[x].t, log[x].f) : x <= v /\ v < y
                /\ AllUploaded(log[x].t, log[x].f)
    /\ (pending # <<>> \/ inflight # {}) =>
        /\ pc = "wait"
        /\ \E p \in DOMAIN log :
            /\ log[p].op = "pool"
            /\ log[p].t = CurTable /\ log[p].f = CurFile
            /\ Len(pending) + Cardinality(inflight)
                   + Cardinality({x \in UploadsOf(CurTable, CurFile) : x > p})
               = log[p].i
            /\ \A x \in UploadSteps : x > p => log[x].f = CurFile

\* A chunk of the second file of a table is in flight in the pool after the
\* first file, read before it, was uploaded in two chunks.
C15_Witness ==
    /\ inflight # {}
    /\ \E v \in DOMAIN log :
        /\ log[v].op = "verdict"
        /\ log[v].t = CurTable
        /\ log[v].f < CurFile
        /\ log[v].i >= 2

-----------------------------------------------------------------------------
InUpload == pc \in {"upload", "whole", "seq", "pool", "wait", "verdict"}

\* C16: a file that cannot be opened or parsed, or whose preflight fails, is
\* skipped alone. It gets no upload and no verdict and is never handed to
\* upload_to_db; upload_to_db is called only with files to upload, so not at
\* all for a table whose files all failed; and at the end of the run every
\* well-formed file of every covered table of the list has been uploaded,
\* wherever the failed files stand in the listings.
C16_BadFileSkippedAlone ==
    /\ \A e \in ReadSteps :
        ~log[e].ok =>
            /\ UploadsOf(log[e].t, log[e].f) = {}
            /\ Verdicts(log[e].t, log[e].f) = {}
            /\ \A x \in DOMAIN log :
                (log[x].t = log[e].t /\ log[x].f = log[e].f)
                    => log[x].op \in {"open", "preflight"}
            /\ (InUpload /\ CurTable = log[e].t) => log[e].f \notin Range(items)
    /\ InUpload =>
        /\ items # <<>>
        /\ \A f \in Range(items) : data[f].kind \in {"frame", "iter"}
    /\ pc = "done" =>
        \A x \in DOMAIN tablenames :
            Covered(tablenames[x]) => Processed(tablenames[x])

\* A run has ended in which a file of the first table failed and a file
\* after it was uploaded, and the files of the second table were read and
\* none of them was uploaded.
C16_Witness ==
    /\ pc = "done"
    /\ Len(tablenames) = 2
    /\ \E e \in ReadSteps :
        /\ ~log[e].ok
        /\ log[e].t = tablenames[1]
        /\ \E x \in Uploads : log[x].t = tablenames[1] /\ log[x].f > log[e].f
    /\ \E e \in ReadSteps : log[e].t = tablenames[2]
    /\ \A x \in Uploads : log[x].t # tablenames[2]

-----------------------------------------------------------------------------
\* The run is over and has left nothing behind: no task is queued or in
\* flight, every chunk given to the pool has been uploaded, every file that
\* had an upload has its verdict, and if main returned every table of the
\* list was skipped or fully processed.
Ended ==
    /\ pc \in {"done", "exited"}
    /\ pending = <<>> /\ inflight = {} /\ poolResults = {}
    /\ \A p \in DOMAIN log :
        log[p].op = "pool" =>
            Cardinality(UploadsOf(log[p].t, log[p].f)) = log[p].i
    /\ \A x \in Uploads : Verdicts(log[x].t, log[x].f) # {}
    /\ pc = "done" =>
        \A x \in DOMAIN tablenames :
            ~Covered(tablenames[x]) \/ Processed(tablenames[x])

\* C17: the run always finishes. If every call returns, the run comes to
\* its end state and stays there, with every submitted chunk upload having
\* given its result, whatever the results of its siblings, every file
\* handed to upload having its verdict and every table skipped or fully
\* processed.
C17_RunAlwaysFinishes == <>[]Ended

\* A run has ended in which the pool was given two chunks or more of a
\* file, the store rejected one and a sibling was uploaded after it.
C17_Witness ==
    /\ Ended
    /\ pc = "done"
    /\ \E p \in DOMAIN log :
        /\ log[p].op = "pool"
        /\ log[p].i >= 2
        /\ \E x, y \in UploadsOf(log[p].t, log[p].f) :
            x < y /\ ~log[x].ok /\ log[y].ok

-----------------------------------------------------------------------------
\* The return of read_csv that follows the message at x.
ReturnAfter(x) == log[CHOOSE y \in DOMAIN log :
                          /\ y > x
                          /\ log[y].op = "read_csv"
                          /\ \A z \in (x + 1)..(y - 1) : log[z].op # "read_csv"]

Messages(op) == {x \in DOMAIN log : log[x].op = op}

\* C18 as stated: what read_csv returns for a table whose directory is
\* missing differs from what it returns for a directory without files.
C18_MissingDistinctFromEmpty ==
    \A x \in Messages("nodir"), y \in Messages("nonew") :
        ReturnAfter(x).ret # ReturnAfter(y).ret

\* C18, amended: a missing directory and a directory without files differ
\* by their message only. The first message is made when the directory does
\* not exist, the second when it was listed and none of its entries is a
\* file; after either read_csv returns the same empty dict, which main
\* tests as false, and the table has no upload. An entry that is a
\* sub-directory is never among the files of its table and no step is made
\* on it.
C18_MissingAndEmptyReturnAlike ==
    /\ \A x \in Messages("nodir") : fs[log[x].t].state = "nodir"
    /\ \A x \in Messages("nonew") :
        /\ fs[log[x].t].state = "listed"
        /\ \A f \in DOMAIN fs[log[x].t].entries :
            fs[log[x].t].entries[f].kind # "file"
    /\ \A x \in Messages("nodir") \cup Messages("nonew") :
        /\ log[x + 1].op = "read_csv"
        /\ log[x + 1].ret = <<>>
        /\ ~log[x + 1].ok
        /\ \A u \in Uploads : log[u].t # log[x].t
    /\ \A x \in DOMAIN log :
        log[x].f # 0 => fs[log[x].t].entries[log[x].f].kind = "file"
    /\ InTableTurn =>
        \A f \in Range(filenames) \cup Range(items) : CurEntries[f].kind = "file"

\* A run has ended in which the directory of one table was missing and the
\* directory of the other held a sub-directory and no file.
C18_Witness ==
    /\ pc = "done"
    /\ \E x \in Messages("nodir"), y \in Messages("nonew") :
        \E f \in DOMAIN fs[log[y].t].entries :
            fs[log[y].t].entries[f].kind = "dir"

-----------------------------------------------------------------------------
\* C19: a table is processed in two phases. Every read step of a table
\* comes before every upload step of it; and when upload_to_db has the
\* table, every file of its directory has been opened and, with a chunk
\* size set, every file that opened has been preflighted. So a file that
\* fails is found before any row of the table reaches the store.
C19_ReadPhaseBeforeUploadPhase ==
    /\ \A x \in ReadSteps, u \in UploadSteps :
        log[x].t = log[u].t => x < u
    /\ InUpload =>
        \A f \in DOMAIN CurEntries :
            CurEntries[f].kind = "file" =>
                /\ \E x \in ReadSteps :
                    /\ log[x].op = "open"
                    /\ log[x].t = CurTable /\ log[x].f = f
                    /\ (Chunked /\ log[x].ok) => Preflights(CurTable, f) # {}
                /\ \A x \in DOMAIN log :
                    (log[x].rows # {} /\ log[x].t = CurTable) =>
                        \A y \in ReadSteps :
                            (log[y].t = CurTable /\ log[y].f = f) => y < x

\* With a chunk size set, a file of a table has been uploaded after the
\* preflight of a file listed after it failed.
C19_Witness ==
    /\ Chunked
    /\ \E y \in ReadSteps, u \in Uploads :
        /\ log[y].op = "preflight"
        /\ ~log[y].ok
        /\ log[u].t = log[y].t
        /\ log[u].f < log[y].f
        /\ log[u].ok

-----------------------------------------------------------------------------
\* The chunk indices of file f of table t whose insert the store accepted.
Accepted(t, f) == {log[x].i : x \in {u \in UploadsOf(t, f) : log[u].ok}}

\* C20: what the upload of a file through the pool leaves behind is a
\* function of the outcomes of its chunks, not of the order the workers
\* finished in. At the verdict of such a file, the verdict is success
\* exactly when every chunk index was accepted, and the store of the first
\* run holds each row of an accepted chunk once and no row of a rejected
\* one.
C20_OutcomeIndependentOfRace ==
    \A v \in Messages("verdict") :
        (\E p \in Messages("pool") : log[p].t = log[v].t /\ log[p].f = log[v].f) =>
            LET t == log[v].t
                f == log[v].f
                file == fs[t].entries[f]
            IN /\ log[v].ok <=> Accepted(t, f) = 0..(ChunksOf(file) - 1)
               /\ \A i \in 0..(ChunksOf(file) - 1) :
                    \A r \in NextChunk(file, chunk_num, i) :
                        CopiesIn(<<t, f, r>>, store)
                            = IF i \in Accepted(t, f) THEN 1 ELSE 0

\* The pool has uploaded a file whose later chunk was appended before an
\* earlier one, and the file has its verdict.
C20_Witness ==
    \E v \in Messages("verdict") :
        \E x, y \in UploadsOf(log[v].t, log[v].f) :
            /\ x < y
            /\ log[x].i > log[y].i
            /\ log[x].ok /\ log[y].ok

=============================================================================
